---- MODULE Spec2Model ----
(***************************************************************************)
(* The scan scheduler and aggregator of src/src/scan.rs: scan(), scan6()   *)
(* and arp_scan() submit one closure per work item to a thread pool, the   *)
(* closures run the probe and send one message on an mpsc channel, and the *)
(* calling thread reads recv_size messages and merges them.                *)
(***************************************************************************)
EXTENDS Integers, Sequences, FiniteSets, TLC

\* ---- bounds of the model ------------------------------------------------
MaxHosts == 2
MaxTasks == 2
MaxThreads == 2

\* ---- value domains -------------------------------------------------------
\* Option<T>: None is the empty tuple, Some(x) the one-element tuple.
None == <<>>
Some(x) == <<x>>
IsSome(o) == o # None
Unwrap(o) == o[1]

Addrs == {"10.0.0.5", "10.0.0.6"}
Addrs6 == {"fe80::5", "fe80::6"}
DstPorts == {22, 80}
SrcAddr == "10.0.0.1"
SrcAddr6 == "fe80::1"
\* An ARP target may hold any IPv4 address, the scanner's own included.
ArpAddrs == Addrs \cup {SrcAddr}
RandomPorts == {49152, 65535}
SrcPortArgs == {None, Some(40000)}
ProtocolArgs == {None, Some(17)}
ZombieArgs == {None, Some("10.0.0.9")}
ZombiePortArgs == {None, Some(80)}
Macs == {<<0, 17, 34, 51, 68, 85>>, <<172, 222, 72, 0, 17, 34>>}
SrcMac == <<2, 0, 0, 0, 0, 1>>

TargetScanStatus ==
    {"Open", "Closed", "Filtered", "OpenOrFiltered", "Unfiltered",
     "Unreachable", "ClosedOrFiltered"}

ScanMethod ==
    {"Connect", "Syn", "Fin", "Ack", "Null", "Xmas", "Window", "Maimon",
     "Idle", "Udp", "IpProcotol"}

ScanMethod6 ==
    {"Connect", "Syn", "Fin", "Ack", "Null", "Xmas", "Window", "Maimon", "Udp"}

\* ---- helpers --------------------------------------------------------------
RECURSIVE SeqsUpTo(_, _)
SeqsUpTo(S, n) ==
    IF n = 0 THEN {<<>>}
    ELSE LET shorter == SeqsUpTo(S, n - 1)
         IN shorter \cup {Append(s, x) : s \in {q \in shorter : Len(q) = n - 1}, x \in S}

RECURSIVE SumPorts(_)
SumPorts(hs) == IF hs = <<>> THEN 0 ELSE Len(Head(hs).ports) + SumPorts(Tail(hs))

EmptyMap == [k \in {} |-> k]
MapInsert(m, key, v) == [k \in DOMAIN m \cup {key} |-> IF k = key THEN v ELSE m[k]]

\* ---- state ------------------------------------------------------------------
VARIABLES
    api,          \* which entry point runs: "scan", "scan6" or "arp_scan"
    target,       \* Target: target_type, hosts, hosts6
    method,       \* ScanMethod / ScanMethod6 argument
    src_port,     \* Option<u16> argument
    zombie_ipv4,  \* Option<Ipv4Addr> argument
    zombie_port,  \* Option<u16> argument
    protocol,     \* Option<IpNextHeaderProtocol> argument
    threads_num,  \* usize argument
    pc,           \* "run" while the call executes, "returned" afterwards
    host_i,       \* index of the next host of the enumeration loop
    recv_size,    \* let mut recv_size
    port_draws,   \* calls of random_port() made by the calling thread so far
    tasks,        \* the closures handed to pool.execute, in submission order
    chan,         \* every message delivered to the channel, in arrival order
    taken,        \* number of messages the consumer has read from rx
    tcpudp_ret,   \* TcpUdpScanResults.results
    ip_ret,       \* IpScanResults.results
    alive_hosts,  \* ArpScanResults.alive_hosts
    ret,          \* the value returned to the caller
    found,        \* what the source lookups of the last enumerated host yielded
    call,         \* a helper function applied on its own: its name and argument
    result        \* Option: the value that application returned

args == <<api, target, method, src_port, zombie_ipv4, zombie_port, protocol, threads_num>>
pure == <<call, result>>
vars == <<api, target, method, src_port, zombie_ipv4, zombie_port, protocol, threads_num,
          pc, host_i, recv_size, port_draws, tasks, chan, taken, tcpudp_ret, ip_ret, alive_hosts, ret,
          found, call, result>>

\* Host values: an address and a port list (duplicates allowed, the list may be empty).
HostsOver(A, maxPorts) == [addr : A, ports : SeqsUpTo(DstPorts, maxPorts)]

RECURSIVE AllPorts(_)
AllPorts(hs) == IF hs = <<>> THEN <<>> ELSE Head(hs).ports \o AllPorts(Tail(hs))

\* Addresses and ports are opaque to the scheduler, so a target is taken up to
\* renaming: its first host has the address `first` and its first port is 22.
Canonical(hs, first) ==
    /\ hs # <<>> => hs[1].addr = first
    /\ AllPorts(hs) # <<>> => AllPorts(hs)[1] = 22

HostLists(A, first, maxPorts) ==
    {hs \in SeqsUpTo(HostsOver(A, maxPorts), MaxHosts) :
        SumPorts(hs) <= MaxTasks /\ Canonical(hs, first)}

Targets(a) ==
    CASE a = "scan" ->
            {[target_type |-> "Ipv4", hosts |-> hs, hosts6 |-> <<>>] :
                hs \in HostLists(Addrs, "10.0.0.5", MaxTasks)}
      [] a = "scan6" ->
            {[target_type |-> "Ipv6", hosts |-> <<>>, hosts6 |-> hs] :
                hs \in HostLists(Addrs6, "fe80::5", MaxTasks)}
      [] a = "arp_scan" ->
            {[target_type |-> "Ipv4", hosts |-> hs, hosts6 |-> <<>>] :
                hs \in HostLists(ArpAddrs, "10.0.0.5", 0)}
            \cup {[target_type |-> "Ipv6", hosts |-> <<>>, hosts6 |-> hs] :
                hs \in HostLists(Addrs6, "fe80::5", 0)}

\* The scheduler passes the method through to run_scan unexamined; the methods
\* explored are one ordinary engine and the two whose arm of run_scan unwraps an
\* optional argument.
Methods(a) ==
    CASE a = "scan" -> {m \in ScanMethod : m \in {"Syn", "Idle", "IpProcotol"}}
      [] a = "scan6" -> {m \in ScanMethod6 : m = "Syn"}
      [] a = "arp_scan" -> {"Arp"}

\* No lookup made yet.
NotLooked == [src |-> "skipped", interface |-> "skipped", mac |-> "skipped"]

Init ==
    /\ api \in {"scan", "scan6", "arp_scan"}
    /\ target \in Targets(api)
    /\ method \in Methods(api)
    /\ src_port \in IF api = "arp_scan" THEN {None} ELSE SrcPortArgs
    /\ zombie_ipv4 \in IF method = "Idle" THEN ZombieArgs ELSE {None}
    /\ zombie_port \in IF method = "Idle" THEN ZombiePortArgs ELSE {None}
    /\ protocol \in IF api = "scan" THEN ProtocolArgs ELSE {None}
    /\ threads_num \in 0..MaxThreads
    /\ pc = "run"
    /\ host_i = 1
    /\ recv_size = 0
    /\ port_draws = 0
    /\ tasks = <<>>
    /\ chan = <<>>
    /\ taken = 0
    /\ tcpudp_ret = EmptyMap
    /\ ip_ret = EmptyMap
    /\ alive_hosts = EmptyMap
    /\ ret = [kind |-> "none", err |-> None]
    /\ found = NotLooked
    /\ call = [fn |-> "none", arg |-> None]
    /\ result = None

\* ---- the call's view of its arguments ------------------------------------------
\* for host in target.hosts / target.hosts6
Hosts == IF api = "scan6" THEN target.hosts6 ELSE target.hosts

Enumerated == host_i > Len(Hosts)

ReturnErr(e) ==
    /\ pc' = "returned"
    /\ ret' = [kind |-> "Err", err |-> e]

\* get_threads_pool(threads_num): a pool of the given width, a default width for 0.
AutoThreads == 2
PoolWidth(n) == IF n = 0 THEN AutoThreads ELSE n

\* ---- enumeration ------------------------------------------------------------------
\* find_source_ipv4(src_ipv4, dst_ipv4)? / find_source_ipv6: Err, Ok(None) or Ok(Some(s)).
FindSourceResults ==
    {[ok |-> FALSE, val |-> None],
     [ok |-> TRUE, val |-> None],
     [ok |-> TRUE, val |-> Some(IF api = "scan6" THEN SrcAddr6 ELSE SrcAddr)]}

\* Mutant of SrcPortChoices: random_port() evaluated inside the loop over host.ports.
SrcPortPerTask(n) ==
    LET drawn == IF IsSome(src_port) THEN {Unwrap(src_port)} ELSE RandomPorts
    IN [1..n -> drawn]

\* let src_port = match src_port { Some(s) => s, None => random_port() };
\* evaluated once per host, before the loop over host.ports; every closure of the
\* host captures that one value.  The result is the source port of each of the
\* n closures of the host.
SrcPortChoices(n) ==
    LET drawn == IF IsSome(src_port) THEN {Unwrap(src_port)} ELSE RandomPorts
    IN {[k \in 1..n |-> p] : p \in drawn}

\* Mutant of NewTasks: one closure per host that lists a port, whatever the number
\* of ports it lists.
NewTasksOnePerHost(host, hi, sip, sports) ==
    [k \in 1..(IF host.ports = <<>> THEN 0 ELSE 1) |->
        [host_i |-> hi, dst_ip |-> host.addr, dst_port |-> host.ports[k],
         src_ip |-> sip, src_port |-> sports[k], src_mac |-> None,
         st |-> "queued", runs |-> 0, sends |-> 0]]

\* The closures submitted for one host: one per entry of host.ports, in order.
NewTasks(host, hi, sip, sports) ==
    [k \in 1..Len(host.ports) |->
        [host_i |-> hi, dst_ip |-> host.addr, dst_port |-> host.ports[k],
         src_ip |-> sip, src_port |-> sports[k], src_mac |-> None,
         st |-> "queued", runs |-> 0, sends |-> 0]]

\* What a lookup of the source resolution yielded: "error" (Err(..), forwarded by `?`),
\* "nothing" (None), "found" (Some(..)), or "skipped" when the lookup was not reached.
SrcTag(fs) == IF ~fs.ok THEN "error" ELSE IF fs.val = None THEN "nothing" ELSE "found"

\* Mutant of ResolveError: every failed lookup is reported as CanNotFoundSourceAddress.
ResolveErrorAllSource(res) ==
    IF res.src = "error" THEN Some(<<"FindSourceError">>)
    ELSE IF "nothing" \in {res.src, res.interface, res.mac}
    THEN Some(<<"CanNotFoundSourceAddress">>)
    ELSE None

\* The early return of the source resolution, if any: `?` on find_source_ipv4 /
\* find_source_ipv6, then the None arms in the order the lookups are made.
ResolveError(res) ==
    IF res.src = "error" THEN Some(<<"FindSourceError">>)
    ELSE IF res.src = "nothing" THEN Some(<<"CanNotFoundSourceAddress">>)
    ELSE IF res.interface = "nothing" THEN Some(<<"CanNotFoundInterface">>)
    ELSE IF res.mac = "nothing" THEN Some(<<"CanNotFoundMacAddress">>)
    ELSE None

\* Mutant of EnumerateHost: the closures of the host are submitted before its source
\* resolution is examined.
EnumerateHostSubmitsFirst ==
    /\ pc = "run"
    /\ api \in {"scan", "scan6"}
    /\ ~Enumerated
    /\ LET host == Hosts[host_i] IN
       \E fs \in FindSourceResults, sports \in SrcPortChoices(Len(host.ports)) :
          LET res == [src |-> SrcTag(fs), interface |-> "skipped", mac |-> "skipped"] IN
          /\ found' = res
          /\ tasks' = tasks \o NewTasks(host, host_i, fs.val, sports)
          /\ recv_size' = recv_size + Len(host.ports)
          /\ port_draws' = IF IsSome(src_port) THEN port_draws ELSE port_draws + 1
          /\ IF IsSome(ResolveError(res)) THEN
                 /\ ReturnErr(Unwrap(ResolveError(res)))
                 /\ UNCHANGED host_i
             ELSE
                 /\ host_i' = host_i + 1
                 /\ UNCHANGED <<pc, ret>>
    /\ UNCHANGED <<args, pure, chan, taken, tcpudp_ret, ip_ret, alive_hosts>>

\* One iteration of `for host in target.hosts` of scan() / scan6().
EnumerateHost ==
    /\ pc = "run"
    /\ api \in {"scan", "scan6"}
    /\ ~Enumerated
    /\ LET host == Hosts[host_i] IN
       \E fs \in FindSourceResults :
          LET res == [src |-> SrcTag(fs), interface |-> "skipped", mac |-> "skipped"] IN
          /\ found' = res
          /\ IF IsSome(ResolveError(res)) THEN
                 /\ ReturnErr(Unwrap(ResolveError(res)))
                 /\ UNCHANGED <<host_i, recv_size, port_draws, tasks>>
             ELSE
                 \E sports \in SrcPortChoices(Len(host.ports)) :
                    /\ tasks' = tasks \o NewTasks(host, host_i, Unwrap(fs.val), sports)
                    /\ recv_size' = recv_size + Len(host.ports)
                    /\ port_draws' = IF IsSome(src_port) THEN port_draws ELSE port_draws + 1
                    /\ host_i' = host_i + 1
                    /\ UNCHANGED <<pc, ret>>
    /\ UNCHANGED <<args, pure, chan, taken, tcpudp_ret, ip_ret, alive_hosts>>

\* Source resolution of arp_scan: find_source_ipv4, then find_interface_by_ipv4,
\* then interface.mac; a lookup is made only when the one before it found a value.
ArpLookups ==
    {[src |-> "error", interface |-> "skipped", mac |-> "skipped"],
     [src |-> "nothing", interface |-> "skipped", mac |-> "skipped"],
     [src |-> "found", interface |-> "nothing", mac |-> "skipped"],
     [src |-> "found", interface |-> "found", mac |-> "nothing"],
     [src |-> "found", interface |-> "found", mac |-> "found"]}

\* One iteration of `for host in target.hosts` of arp_scan().
ArpEnumerateHost ==
    /\ pc = "run"
    /\ api = "arp_scan"
    /\ target.target_type = "Ipv4"
    /\ ~Enumerated
    /\ recv_size' = recv_size + 1
    /\ LET host == Hosts[host_i] IN
       \E res \in ArpLookups :
          /\ found' = res
          /\ IF IsSome(ResolveError(res)) THEN
                 /\ ReturnErr(Unwrap(ResolveError(res)))
                 /\ UNCHANGED <<host_i, tasks>>
             ELSE
                 /\ tasks' = Append(tasks,
                       [host_i |-> host_i, dst_ip |-> host.addr, dst_port |-> 0,
                        src_ip |-> SrcAddr, src_port |-> 0, src_mac |-> SrcMac,
                        st |-> "queued", runs |-> 0, sends |-> 0])
                 /\ host_i' = host_i + 1
                 /\ UNCHANGED <<pc, ret>>
    /\ UNCHANGED <<args, pure, port_draws, chan, taken, tcpudp_ret, ip_ret, alive_hosts>>

\* Mutant of ArpNotSupported: the fallback arm returns an empty Ok result.
ArpNotSupportedReturnsOk ==
    /\ pc = "run"
    /\ api = "arp_scan"
    /\ target.target_type # "Ipv4"
    /\ pc' = "returned"
    /\ ret' = [kind |-> "Ok", err |-> None]
    /\ UNCHANGED <<args, pure, found, host_i, recv_size, port_draws, tasks, chan, taken, tcpudp_ret, ip_ret,
                   alive_hosts>>

\* arp_scan on a target that is not IPv4.
ArpNotSupported ==
    /\ pc = "run"
    /\ api = "arp_scan"
    /\ target.target_type # "Ipv4"
    /\ ReturnErr(<<"NotSupportIpTypeForArpScan">>)
    /\ UNCHANGED <<args, pure, found, host_i, recv_size, port_draws, tasks, chan, taken, tcpudp_ret, ip_ret,
                   alive_hosts>>

\* ---- the pool's workers ------------------------------------------------------------
Running == {t \in 1..Len(tasks) : tasks[t].st = "running"}
Queued == {t \in 1..Len(tasks) : tasks[t].st = "queued"}

\* Mutant of StartTask: a thread is spawned per closure, whatever the pool's width.
StartTaskUnbounded(t) ==
    /\ t \in Queued
    /\ tasks' = [tasks EXCEPT ![t].st = "running", ![t].runs = @ + 1]
    /\ UNCHANGED <<args, pure, found, pc, host_i, recv_size, port_draws, chan, taken, tcpudp_ret, ip_ret,
                   alive_hosts, ret>>

\* A free worker of the pool takes a queued closure (no order among the queued
\* closures is assumed); the pool runs at most PoolWidth closures at a time, and,
\* as it never cancels, keeps taking them after the call has returned.
StartTask(t) ==
    /\ t \in Queued
    /\ Cardinality(Running) < PoolWidth(threads_num)
    /\ tasks' = [tasks EXCEPT ![t].st = "running", ![t].runs = @ + 1]
    /\ UNCHANGED <<args, pure, found, pc, host_i, recv_size, port_draws, chan, taken, tcpudp_ret, ip_ret,
                   alive_hosts, ret>>

\* Verdicts an engine can return for a method (mapping table of the probe engines).
EngineVerdicts(m) ==
    CASE m \in {"Connect", "Syn", "Window"} -> {"Open", "Closed", "Filtered"}
      [] m \in {"Fin", "Null", "Xmas"} -> {"Closed", "OpenOrFiltered", "Filtered"}
      [] m = "Ack" -> {"Unfiltered", "Filtered"}
      [] m = "Maimon" -> {"Closed", "OpenOrFiltered"}
      [] m = "Idle" -> {"Open", "Closed"}
      [] m \in {"Udp", "IpProcotol"} -> {"Open", "Closed", "Filtered", "OpenOrFiltered"}

\* What an engine can observe for its probe (mapping table of the probe engines).
\* An Idle probe observes the zombie: the step of its IP-ID, or no answer from it.
ObservationsOf(m) ==
    CASE m = "Connect" -> {"completed", "refused", "unreachable", "no_reply"}
      [] m = "Syn" -> {"syn_ack", "rst", "icmp_unreachable", "no_reply"}
      [] m \in {"Fin", "Null", "Xmas", "Ack"} -> {"rst", "icmp_unreachable", "no_reply"}
      [] m = "Window" -> {"rst_window", "rst_zero_window", "no_reply"}
      [] m = "Maimon" -> {"rst", "no_reply"}
      [] m = "Udp" -> {"udp_reply", "icmp_port_unreachable", "icmp_unreachable", "no_reply"}
      [] m = "IpProcotol" ->
            {"protocol_reply", "icmp_protocol_unreachable", "icmp_unreachable", "no_reply"}
      [] m = "Idle" -> {"ipid_step_1", "ipid_step_2", "ipid_step_more", "zombie_no_reply"}

\* The observations left when the timeout expires at once.
ObservationsAt(m, timeout) ==
    IF timeout = 0
    THEN {o \in ObservationsOf(m) : o \in {"no_reply", "zombie_no_reply"}}
    ELSE ObservationsOf(m)

\* Mutant of EngineError: an expired timeout is an error for every method.
EngineErrorOnTimeout(m, o) ==
    IF m = "Idle" /\ o = "zombie_no_reply" THEN Some(<<"ZombieUnreachable">>)
    ELSE IF m = "Idle" /\ o = "ipid_step_more" THEN Some(<<"NoisyZombie">>)
    ELSE IF o = "no_reply" THEN Some(<<"Timeout">>)
    ELSE None

\* The Idle engine fails on a silent or noisy zombie; no other observation is an error.
EngineError(m, o) ==
    IF m = "Idle" /\ o = "zombie_no_reply" THEN Some(<<"ZombieUnreachable">>)
    ELSE IF m = "Idle" /\ o = "ipid_step_more" THEN Some(<<"NoisyZombie">>)
    ELSE None

\* The verdict an engine maps an observation to.
VerdictOf(m, o) ==
    CASE o \in {"completed", "syn_ack", "rst_window", "udp_reply", "protocol_reply",
                "ipid_step_2"} -> "Open"
      [] o \in {"refused", "rst_zero_window", "icmp_port_unreachable",
                "icmp_protocol_unreachable", "ipid_step_1"} -> "Closed"
      [] o = "rst" -> IF m = "Ack" THEN "Unfiltered" ELSE "Closed"
      [] o \in {"unreachable", "icmp_unreachable"} -> "Filtered"
      [] o = "no_reply" ->
            IF m \in {"Connect", "Syn", "Ack", "Window"} THEN "Filtered" ELSE "OpenOrFiltered"

MsgOk(ip, port, proto, status, rtt) ==
    [ok |-> TRUE, dst_ip |-> ip, dst_port |-> port, procotol |-> proto,
     scan_ret |-> status, rtt |-> rtt, err |-> None]

MsgErr(e) ==
    [ok |-> FALSE, dst_ip |-> "", dst_port |-> 0, procotol |-> None,
     scan_ret |-> "", rtt |-> None, err |-> e]

\* run_scan / run_scan6 for closure t: TRUE when the call panics before it returns
\* (zombie_ipv4.unwrap(), zombie_port.unwrap(), protocol.unwrap()).
RunScanPanics ==
    /\ api = "scan"
    /\ \/ method = "Idle" /\ (zombie_ipv4 = None \/ zombie_port = None)
       \/ method = "IpProcotol" /\ protocol = None

\* Mutant of RunScanVerdict: run_scan reports an undecided verdict as Open.
RunScanVerdictCoarse(scan_ret) == IF scan_ret = "OpenOrFiltered" THEN "Open" ELSE scan_ret

\* Mutant of RunScanVerdict: a reachable port is reported as Open.
RunScanVerdictReachableOpen(scan_ret) == IF scan_ret = "Unfiltered" THEN "Open" ELSE scan_ret

\* Ok((dst_ipv4, dst_port, protocol, scan_ret, rtt)): the engine's verdict as it is.
RunScanVerdict(scan_ret) == scan_ret

\* Mutant of RunScanResults: the message carries the port of whatever reply the
\* engine matched instead of the closure's own dst_port.
RunScanResultsAnyPort(t) ==
    {MsgOk(tasks[t].dst_ip, port, protocol, status, rtt) :
        port \in DstPorts, status \in EngineVerdicts(method), rtt \in {None, Some(t)}}
    \cup {MsgErr(<<"ProbeError", t>>)}

\* run_scan / run_scan6 for closure t: the values it can return.  The engine's
\* error is forwarded by `?`; otherwise Ok((dst, dst_port, protocol, scan_ret, rtt)).
\* The round-trip time and the error of closure t are tagged with t.
RunScanResults(t) ==
    {MsgOk(tasks[t].dst_ip, tasks[t].dst_port, protocol, RunScanVerdict(status), rtt) :
        status \in EngineVerdicts(method), rtt \in {None, Some(t)}}
    \cup {MsgErr(<<"ProbeError", t>>)}

\* The sender hardware address of a matching ARP reply is whatever the frame
\* carries: the address of another station or one equal to the scanner's own.
ReplyMacs == Macs \cup {SrcMac}

\* arp::send_arp_scan_packet for closure t, wrapped as Ok((dst_ipv4, scan_ret)).
ArpProbeResults(t) ==
    {[ok |-> TRUE, mac |-> Some(m), rtt |-> Some(t), err |-> None] : m \in ReplyMacs}
    \cup {[ok |-> TRUE, mac |-> None, rtt |-> None, err |-> None],
          [ok |-> FALSE, mac |-> None, rtt |-> None, err |-> <<"ProbeError", t>>]}

\* Mutant of ArpRunResults: the message is keyed by the sender protocol address of
\* whatever reply was captured instead of the probed address.
ArpRunResultsSenderIp(t) ==
    {MsgOk(ip, 0, None, r, None) : ip \in ArpAddrs, r \in ArpProbeResults(t)}

ArpRunResults(t) ==
    {MsgOk(tasks[t].dst_ip, 0, None, r, None) : r \in ArpProbeResults(t)}

\* match tx.send(scan_ret) { _ => () }: the message is queued while the receiver
\* lives; once the caller has returned the send fails and the value is dropped.
TxSend(m) == IF pc = "run" THEN Append(chan, m) ELSE chan

\* Mutant of FinishTask: tx.send(scan_ret).unwrap(), which panics once the
\* receiver is gone.
FinishTaskUnwrapSend(t) ==
    /\ t \in Running
    /\ ~RunScanPanics
    /\ \E m \in (IF api = "arp_scan" THEN ArpRunResults(t) ELSE RunScanResults(t)) :
          chan' = TxSend(m)
    /\ tasks' = [tasks EXCEPT ![t].st = IF pc = "run" THEN "finished" ELSE "panicked",
                              ![t].sends = @ + 1]
    /\ UNCHANGED <<args, pure, found, pc, host_i, recv_size, port_draws, taken, tcpudp_ret, ip_ret,
                   alive_hosts, ret>>

\* The closure body of worker t runs to its end: probe, then one send.
FinishTask(t) ==
    /\ t \in Running
    /\ ~RunScanPanics
    /\ \E m \in (IF api = "arp_scan" THEN ArpRunResults(t) ELSE RunScanResults(t)) :
          chan' = TxSend(m)
    /\ tasks' = [tasks EXCEPT ![t].st = "finished", ![t].sends = @ + 1]
    /\ UNCHANGED <<args, pure, found, pc, host_i, recv_size, port_draws, taken, tcpudp_ret, ip_ret,
                   alive_hosts, ret>>

\* The closure body of worker t panics inside run_scan: its tx clone is dropped
\* without a send, and the pool replaces the worker thread.
PanicTask(t) ==
    /\ t \in Running
    /\ RunScanPanics
    /\ tasks' = [tasks EXCEPT ![t].st = "panicked"]
    /\ UNCHANGED <<args, pure, found, pc, host_i, recv_size, port_draws, chan, taken, tcpudp_ret, ip_ret,
                   alive_hosts, ret>>

\* ---- the consumer -------------------------------------------------------------------
\* Mutant of Merge: a later round-trip time replaces the stored one.
MergeLastRtt(results, ip, key, scan_ret, rtt) ==
    IF ip \in DOMAIN results THEN
        [results EXCEPT ![ip] =
            [status |-> MapInsert(@.status, key, scan_ret),
             rtt |-> IF IsSome(rtt) THEN rtt ELSE @.rtt]]
    ELSE
        MapInsert(results, ip,
            [status |-> MapInsert(EmptyMap, key, scan_ret), rtt |-> rtt])

\* Mutant of Merge: an existing status is kept (entry().or_insert()).
MergeKeepFirstStatus(results, ip, key, scan_ret, rtt) ==
    IF ip \in DOMAIN results THEN
        [results EXCEPT ![ip] =
            [status |-> IF key \in DOMAIN @.status THEN @.status
                        ELSE MapInsert(@.status, key, scan_ret),
             rtt |-> IF IsSome(@.rtt) THEN @.rtt ELSE rtt]]
    ELSE
        MapInsert(results, ip,
            [status |-> MapInsert(EmptyMap, key, scan_ret), rtt |-> rtt])

\* Mutant of Merge: the per-IP entry is created without its first status.
MergeCreateEmpty(results, ip, key, scan_ret, rtt) ==
    IF ip \in DOMAIN results THEN
        [results EXCEPT ![ip] =
            [status |-> MapInsert(@.status, key, scan_ret),
             rtt |-> IF IsSome(@.rtt) THEN @.rtt ELSE rtt]]
    ELSE
        MapInsert(results, ip, [status |-> EmptyMap, rtt |-> rtt])

\* Mutant of Merge: a message for an IP that already has an entry is dropped.
MergeFirstMessageOnly(results, ip, key, scan_ret, rtt) ==
    IF ip \in DOMAIN results THEN results
    ELSE
        MapInsert(results, ip,
            [status |-> MapInsert(EmptyMap, key, scan_ret), rtt |-> rtt])

\* Mutant of Merge: the per-IP entry is rebuilt from each message, so the stored
\* statuses depend on which message arrives last.
MergeReplaceEntry(results, ip, key, scan_ret, rtt) ==
    IF ip \in DOMAIN results THEN
        [results EXCEPT ![ip] =
            [status |-> MapInsert(EmptyMap, key, scan_ret),
             rtt |-> IF IsSome(@.rtt) THEN @.rtt ELSE rtt]]
    ELSE
        MapInsert(results, ip,
            [status |-> MapInsert(EmptyMap, key, scan_ret), rtt |-> rtt])

\* The branch of the merge loop for one Ok message: the per-IP entry is created on
\* first sight, the status is inserted under its key, and rtt is set only while None.
Merge(results, ip, key, scan_ret, rtt) ==
    IF ip \in DOMAIN results THEN
        [results EXCEPT ![ip] =
            [status |-> MapInsert(@.status, key, scan_ret),
             rtt |-> IF IsSome(@.rtt) THEN @.rtt ELSE rtt]]
    ELSE
        MapInsert(results, ip,
            [status |-> MapInsert(EmptyMap, key, scan_ret), rtt |-> rtt])

\* format!("{:X}", byte): uppercase hexadecimal without padding.
HexDigits == <<"0", "1", "2", "3", "4", "5", "6", "7", "8", "9",
               "A", "B", "C", "D", "E", "F">>
FormatX(b) ==
    IF b < 16 THEN <<HexDigits[b + 1]>>
    ELSE <<HexDigits[(b \div 16) + 1], HexDigits[(b % 16) + 1]>>

\* Mutant of PadHex: the formatted byte is appended without padding.
PadHexNone(h) == h

\* let i = if m.len() < 2 { 2 - m.len() } else { 0 }; push i zeros, then m.
PadHex(h) == IF Len(h) < 2 THEN [i \in 1..(2 - Len(h)) |-> "0"] \o h ELSE h

MacPrefix(m) == PadHex(FormatX(m[1])) \o PadHex(FormatX(m[2])) \o PadHex(FormatX(m[3]))

\* The parsed prefix table (prefix as a character sequence, vendor text).
NmapMacPrefixes ==
    <<[prefix |-> <<"0", "0", "1", "1", "2", "2">>, ouis |-> "ACME Networks"],
      [prefix |-> <<"A", "C", "D", "E", "4", "8">>, ouis |-> "Private"]>>

\* Mutant of LookupIn: a row matches when its prefix starts the MAC's prefix.
LookupInStartsWith(table, prefix) ==
    LET hits == {i \in 1..Len(table) :
                    /\ Len(table[i].prefix) <= Len(prefix)
                    /\ SubSeq(prefix, 1, Len(table[i].prefix)) = table[i].prefix}
    IN IF hits = {} THEN ""
       ELSE table[CHOOSE i \in hits : \A j \in hits : j <= i].ouis

\* let mut ouis = String::new();
\* for p in &nmap_mac_prefixes { if mac_prefix == p.prefix { ouis = p.ouis } }
LookupIn(table, prefix) ==
    LET hits == {i \in 1..Len(table) : table[i].prefix = prefix}
    IN IF hits = {} THEN ""
       ELSE table[CHOOSE i \in hits : \A j \in hits : j <= i].ouis

\* The lookup in the table parsed at the start of arp_scan.
LookupOuis(prefix) == LookupIn(NmapMacPrefixes, prefix)

\* Mutant of RecvOk: the map is chosen by the method instead of by the message's protocol.
RecvOkByMethod(v) ==
    /\ IF api = "scan" /\ method = "IpProcotol" THEN
           /\ ip_ret' = Merge(ip_ret, v.dst_ip, Unwrap(v.procotol), v.scan_ret, v.rtt)
           /\ UNCHANGED tcpudp_ret
       ELSE
           /\ tcpudp_ret' = Merge(tcpudp_ret, v.dst_ip, v.dst_port, v.scan_ret, v.rtt)
           /\ UNCHANGED ip_ret
    /\ UNCHANGED <<pc, ret>>

\* Ok(..) arm of the merge loop: with a protocol the verdict is filed in ip_ret
\* under the protocol, otherwise in tcpudp_ret under the port.
RecvOk(v) ==
    /\ IF api = "scan" /\ IsSome(v.procotol) THEN
           /\ ip_ret' = Merge(ip_ret, v.dst_ip, Unwrap(v.procotol), v.scan_ret, v.rtt)
           /\ UNCHANGED tcpudp_ret
       ELSE
           /\ tcpudp_ret' = Merge(tcpudp_ret, v.dst_ip, v.dst_port, v.scan_ret, v.rtt)
           /\ UNCHANGED ip_ret
    /\ UNCHANGED <<pc, ret>>

\* Mutant of RecvErr: the error message is skipped and the loop goes on.
RecvErrSkipped(v) == UNCHANGED <<pc, ret, tcpudp_ret, ip_ret>>

\* Err(e) => return Err(e)
RecvErr(v) ==
    /\ ReturnErr(v.err)
    /\ UNCHANGED <<tcpudp_ret, ip_ret>>

\* One iteration of `for v in iter` of scan() / scan6().
Recv ==
    /\ pc = "run"
    /\ api \in {"scan", "scan6"}
    /\ Enumerated
    /\ taken < recv_size
    /\ taken < Len(chan)
    /\ taken' = taken + 1
    /\ LET v == chan[taken + 1] IN
       IF v.ok THEN RecvOk(v) ELSE RecvErr(v)
    /\ UNCHANGED <<args, pure, found, host_i, recv_size, port_draws, tasks, chan, alive_hosts>>

\* Mutant of ArpRecv: the (_, _) arm records the host too, with the broadcast MAC.
ArpRecvInsertsAll ==
    /\ pc = "run"
    /\ api = "arp_scan"
    /\ target.target_type = "Ipv4"
    /\ Enumerated
    /\ taken < recv_size
    /\ taken < Len(chan)
    /\ taken' = taken + 1
    /\ LET v == chan[taken + 1]
           target_mac == v.scan_ret
       IN IF ~target_mac.ok THEN
              /\ ReturnErr(target_mac.err)
              /\ UNCHANGED alive_hosts
          ELSE IF IsSome(target_mac.mac) /\ IsSome(target_mac.rtt) THEN
              /\ alive_hosts' = MapInsert(alive_hosts, v.dst_ip,
                    [mac_addr |-> Unwrap(target_mac.mac),
                     ouis |-> LookupOuis(MacPrefix(Unwrap(target_mac.mac)))])
              /\ UNCHANGED <<pc, ret>>
          ELSE
              /\ alive_hosts' = MapInsert(alive_hosts, v.dst_ip,
                    [mac_addr |-> <<255, 255, 255, 255, 255, 255>>, ouis |-> ""])
              /\ UNCHANGED <<pc, ret>>
    /\ UNCHANGED <<args, pure, found, host_i, recv_size, port_draws, tasks, chan, tcpudp_ret, ip_ret>>

\* One iteration of `for v in iter` of arp_scan().
ArpRecv ==
    /\ pc = "run"
    /\ api = "arp_scan"
    /\ target.target_type = "Ipv4"
    /\ Enumerated
    /\ taken < recv_size
    /\ taken < Len(chan)
    /\ taken' = taken + 1
    /\ LET v == chan[taken + 1]
           target_mac == v.scan_ret
       IN IF ~target_mac.ok THEN
              /\ ReturnErr(target_mac.err)
              /\ UNCHANGED alive_hosts
          ELSE IF IsSome(target_mac.mac) /\ IsSome(target_mac.rtt) THEN
              /\ alive_hosts' = MapInsert(alive_hosts, v.dst_ip,
                    [mac_addr |-> Unwrap(target_mac.mac),
                     ouis |-> LookupOuis(MacPrefix(Unwrap(target_mac.mac)))])
              /\ UNCHANGED <<pc, ret>>
          ELSE
              UNCHANGED <<pc, ret, alive_hosts>>
    /\ UNCHANGED <<args, pure, found, host_i, recv_size, port_draws, tasks, chan, tcpudp_ret, ip_ret>>

\* Mutant of ReturnOk: the loop ends as soon as the channel is drained (try_iter).
ReturnOkWhenDrained ==
    /\ pc = "run"
    /\ api = "arp_scan" => target.target_type = "Ipv4"
    /\ Enumerated
    /\ taken = Len(chan)
    /\ pc' = "returned"
    /\ ret' = [kind |-> "Ok", err |-> None]
    /\ UNCHANGED <<args, pure, found, host_i, recv_size, port_draws, tasks, chan, taken, tcpudp_ret, ip_ret,
                   alive_hosts>>

\* Mutant of ReturnOk: the loop reads a message before it tests the count
\* (a recv() ahead of take), so it cannot end without one.
ReturnOkNeedsMessage ==
    /\ pc = "run"
    /\ api = "arp_scan" => target.target_type = "Ipv4"
    /\ Enumerated
    /\ taken = recv_size
    /\ taken > 0
    /\ pc' = "returned"
    /\ ret' = [kind |-> "Ok", err |-> None]
    /\ UNCHANGED <<args, pure, found, host_i, recv_size, port_draws, tasks, chan, taken, tcpudp_ret, ip_ret,
                   alive_hosts>>

\* The iterator is exhausted after recv_size messages: Ok(...) is returned.
ReturnOk ==
    /\ pc = "run"
    /\ api = "arp_scan" => target.target_type = "Ipv4"
    /\ Enumerated
    /\ taken = recv_size
    /\ pc' = "returned"
    /\ ret' = [kind |-> "Ok", err |-> None]
    /\ UNCHANGED <<args, pure, found, host_i, recv_size, port_draws, tasks, chan, taken, tcpudp_ret, ip_ret,
                   alive_hosts>>

Next ==
    \/ EnumerateHost
    \/ ArpEnumerateHost
    \/ ArpNotSupported
    \/ \E t \in 1..Len(tasks) : StartTask(t)
    \/ \E t \in 1..Len(tasks) : FinishTask(t)
    \/ \E t \in 1..Len(tasks) : PanicTask(t)
    \/ Recv
    \/ ArpRecv
    \/ ReturnOk

Spec == Init /\ [][Next]_vars

\* Fairness of the pool: a worker that can take a closure, or end one, does so.
FairSpec ==
    /\ Spec
    /\ \A t \in 1..MaxTasks :
          WF_vars(StartTask(t)) /\ WF_vars(FinishTask(t)) /\ WF_vars(PanicTask(t))

\* Fairness of the calling thread as well: it enumerates, reads a delivered message
\* and returns whenever it can.
LiveSpec ==
    /\ FairSpec
    /\ WF_vars(EnumerateHost) /\ WF_vars(ArpEnumerateHost) /\ WF_vars(ArpNotSupported)
    /\ WF_vars(Recv) /\ WF_vars(ArpRecv) /\ WF_vars(ReturnOk)

\* ---- helper functions applied on their own -----------------------------------------
\* Byte values around the one-digit / two-digit and digit / letter borders of {:X}.
SampleBytes == {0, 1, 9, 10, 15, 16, 17, 34, 72, 153, 160, 172, 222, 255}
SampleMacs == {<<a, b, c, 0, 0, 0>> : a, b, c \in SampleBytes}

\* No scan call is in progress.
NoScan ==
    /\ api = "arp_scan"
    /\ target = [target_type |-> "Ipv4", hosts |-> <<>>, hosts6 |-> <<>>]
    /\ method = "Arp"
    /\ src_port = None /\ zombie_ipv4 = None /\ zombie_port = None /\ protocol = None
    /\ threads_num = 1
    /\ pc = "idle"
    /\ host_i = 1 /\ recv_size = 0 /\ port_draws = 0
    /\ tasks = <<>> /\ chan = <<>> /\ taken = 0
    /\ tcpudp_ret = EmptyMap /\ ip_ret = EmptyMap /\ alive_hosts = EmptyMap
    /\ ret = [kind |-> "none", err |-> None]
    /\ found = NotLooked

scanvars == <<pc, host_i, recv_size, port_draws, tasks, chan, taken, tcpudp_ret, ip_ret,
              alive_hosts, ret, found>>

MacPrefixCalls == {[fn |-> "mac_prefix", arg |-> m] : m \in SampleMacs}

\* Prefix tables of up to MaxRows rows; a row's prefix may be shorter than six digits.
MaxRows == 2
TablePrefixes ==
    {<<"0", "0", "1", "1", "2", "2">>, <<"0", "0", "1", "1">>,
     <<"A", "C", "D", "E", "4", "8">>}
TableRows == [prefix : TablePrefixes, ouis : {"ACME Networks", "Private"}]
DiscoveredMacs == ReplyMacs

AliveHostCalls ==
    {[fn |-> "alive_host", arg |-> [m |-> mac, nmap_mac_prefixes |-> table]] :
        mac \in DiscoveredMacs, table \in SeqsUpTo(TableRows, MaxRows)}

\* Lines of the prefix file, as character sequences: up to MaxTokens tokens joined by
\* single spaces (an empty token gives a leading, doubled or trailing space).
MaxTokens == 3
Tokens ==
    {<<"0", "0", "1", "1", "2", "2">>, <<"0", "0", "1", "1">>, <<"A", "C", "M", "E">>,
     <<"#", "1">>, <<"#">>, <<>>}

RECURSIVE JoinSpace(_)
JoinSpace(ts) ==
    IF ts = <<>> THEN <<>>
    ELSE IF Len(ts) = 1 THEN ts[1]
    ELSE ts[1] \o <<" ">> \o JoinSpace(Tail(ts))

FileLines == {JoinSpace(ts) : ts \in SeqsUpTo(Tokens, MaxTokens)}

\* Files of one line, and files of two lines that show the order of the entries.
PrefixFiles ==
    {<<l>> : l \in FileLines}
    \cup {<<JoinSpace(<<p, v>>), JoinSpace(<<p, w>>)>> :
            p \in {tok \in Tokens : Len(tok) = 6},
            v \in Tokens, w \in Tokens}

\* p.contains("#")
Contains(str, ch) == \E k \in 1..Len(str) : str[k] = ch

\* p.split(" "): the pieces between single spaces, empty pieces included.
RECURSIVE SplitSpace(_)
SplitSpace(str) ==
    LET cut == {k \in 1..Len(str) : str[k] = " "}
    IN IF cut = {} THEN <<str>>
       ELSE LET k == CHOOSE i \in cut : \A j \in cut : i <= j
            IN <<SubSeq(str, 1, k - 1)>> \o SplitSpace(SubSeq(str, k + 1, Len(str)))

\* The body of `for p in nmap_mac_prefixes`: the entries one line contributes.
ParseLine(p) ==
    IF ~Contains(p, "#") THEN
        LET p_split == SplitSpace(p)
        IN IF Len(p_split) >= 2
           THEN <<[prefix |-> p_split[1], ouis |-> JoinSpace(Tail(p_split))]>>
           ELSE <<>>
    ELSE <<>>

\* get_nmap_mac_prefixes over the lines of the file.
RECURSIVE GetNmapMacPrefixes(_)
GetNmapMacPrefixes(lines) ==
    IF lines = <<>> THEN <<>>
    ELSE ParseLine(Head(lines)) \o GetNmapMacPrefixes(Tail(lines))

ParseCalls == {[fn |-> "get_nmap_mac_prefixes", arg |-> f] : f \in PrefixFiles}

\* One probe through run_scan / run_scan6 and the merge loop, for every method and
\* with a timeout of zero or of the default length.  run_scan is given the zombie
\* for Idle and the protocol for IpProcotol.
Timeouts == {0, 3}

RunScanCalls ==
    {c \in [fn : {"run_scan"},
            arg : [method : ScanMethod, protocol : ProtocolArgs, timeout : Timeouts]] :
        c.arg.method = "IpProcotol" => IsSome(c.arg.protocol)}
    \cup [fn : {"run_scan6"},
          arg : [method : ScanMethod6, protocol : {None}, timeout : Timeouts]]

\* One run of the Idle engine: the IP-ID (u16) the zombie's RST carries at each of
\* the two probes, or no RST before the timeout.
IpIds == {0, 1, 2, 100, 101, 102, 65534, 65535}
ZombieReplies == {None} \cup {Some(id) : id \in IpIds}

IdleCalls ==
    [fn : {"send_idle_scan_packet"}, arg : [ipid_A : ZombieReplies, ipid_B : ZombieReplies]]

\* send_udp_flood_packet / send_icmp_flood_packet: addresses as four bytes, the
\* identification drawn by rng.gen() and the number of packets asked for.
MaxSamePacket == 2
FloodAddrs == {<<192, 168, 72, 128>>, <<192, 168, 72, 135>>, <<0, 0, 0, 0>>,
               <<255, 255, 255, 255>>}
FloodIds == {0, 1, 54321, 65535}

FloodCalls ==
    [fn : {"send_udp_flood_packet", "send_icmp_flood_packet"},
     arg : [src_ipv4 : FloodAddrs, dst_ipv4 : FloodAddrs, src_port : {57831},
            dst_port : {80}, id : FloodIds, max_same_packet : 0..MaxSamePacket]]

PureCalls ==
    MacPrefixCalls \cup AliveHostCalls \cup ParseCalls \cup RunScanCalls \cup IdleCalls
        \cup FloodCalls

PureInit ==
    /\ NoScan
    /\ call \in PureCalls
    /\ result = None

\* The statements of the (Some(m), Some(_rtt)) arm that build mac_prefix from m.
ApplyMacPrefix ==
    /\ call.fn = "mac_prefix"
    /\ result = None
    /\ result' = Some(MacPrefix(call.arg))
    /\ UNCHANGED <<args, scanvars, call>>

\* The whole (Some(m), Some(_rtt)) arm: the ArpAliveHosts value it inserts.
ApplyAliveHost ==
    /\ call.fn = "alive_host"
    /\ result = None
    /\ result' = Some([mac_addr |-> call.arg.m,
                       ouis |-> LookupIn(call.arg.nmap_mac_prefixes, MacPrefix(call.arg.m))])
    /\ UNCHANGED <<args, scanvars, call>>

ApplyGetNmapMacPrefixes ==
    /\ call.fn = "get_nmap_mac_prefixes"
    /\ result = None
    /\ result' = Some(GetNmapMacPrefixes(call.arg))
    /\ UNCHANGED <<args, scanvars, call>>

\* The result maps after the merge loop has read the one message v.
MergeOne(v) ==
    IF IsSome(v.procotol)
    THEN [tcpudp_ret |-> EmptyMap,
          ip_ret |-> Merge(EmptyMap, v.dst_ip, Unwrap(v.procotol), v.scan_ret, v.rtt)]
    ELSE [tcpudp_ret |-> Merge(EmptyMap, v.dst_ip, v.dst_port, v.scan_ret, v.rtt),
          ip_ret |-> EmptyMap]

\* run_scan / run_scan6 for one probe of the method, then the merge loop reading its
\* message; what the engine observed and the verdict it returned are kept beside the
\* maps, and err is the error the merge loop returns.  The engine can also fail
\* outright (the frame cannot be sent).
NothingStored == [tcpudp_ret |-> EmptyMap, ip_ret |-> EmptyMap]

\* What the engine hands back for an observation.
EngineReturn(m, o) ==
    IF o = "send_failed" THEN [ok |-> FALSE, status |-> "", err |-> <<"SendFailed">>]
    ELSE IF IsSome(EngineError(m, o))
    THEN [ok |-> FALSE, status |-> "", err |-> Unwrap(EngineError(m, o))]
    ELSE [ok |-> TRUE, status |-> VerdictOf(m, o), err |-> None]

\* Mutant of RunScanForward: an engine error is turned into the verdict Filtered.
RunScanForwardLenient(engine_ret) ==
    IF engine_ret.ok THEN engine_ret ELSE [ok |-> TRUE, status |-> "Filtered", err |-> None]

\* `?` and `Err(e) => return Err(e.into())`: run_scan returns the engine's error.
RunScanForward(engine_ret) == engine_ret

ApplyRunScan ==
    /\ call.fn \in {"run_scan", "run_scan6"}
    /\ result = None
    /\ \E o \in ObservationsAt(call.arg.method, call.arg.timeout) \cup {"send_failed"},
          rtt \in {None, Some(1)} :
          LET engine_ret == EngineReturn(call.arg.method, o)
              scan_ret == RunScanForward(engine_ret)
              v == MsgOk(IF call.fn = "run_scan" THEN "10.0.0.5" ELSE "fe80::5", 22,
                         call.arg.protocol, RunScanVerdict(scan_ret.status), rtt)
          IN result' = Some([ok |-> scan_ret.ok, observed |-> o,
                             engine |-> engine_ret.status,
                             stored |-> IF scan_ret.ok THEN MergeOne(v) ELSE NothingStored,
                             err |-> scan_ret.err])
    /\ UNCHANGED <<args, scanvars, call>>

\* Mutant of IdleDelta: the difference of the two IP-IDs without the reduction.
IdleDeltaNoWrap(ipid_A, ipid_B) == ipid_B - ipid_A

\* The step of the zombie's IP-ID between the two probes, as a u16.
IdleDelta(ipid_A, ipid_B) == (ipid_B - ipid_A) % 65536

\* The engine's return for a step: 1 -> Closed, 2 -> Open, anything else is a zombie
\* that cannot be used.
IdleOutcome(delta) ==
    IF delta = 1 THEN [ok |-> TRUE, status |-> "Closed", err |-> <<>>]
    ELSE IF delta = 2 THEN [ok |-> TRUE, status |-> "Open", err |-> <<>>]
    ELSE [ok |-> FALSE, status |-> "", err |-> <<"NoisyZombie">>]

ZombieUnreachable == [ok |-> FALSE, status |-> "", err |-> <<"ZombieUnreachable">>]

\* Probe1: SYN/ACK to the zombie; its RST gives ipid_A, no RST ends the run.
IdleProbe1 ==
    /\ call.fn = "send_idle_scan_packet"
    /\ result = None
    /\ result' = Some([trail |-> <<"Probe1">>,
                       idle_rets |-> [zombie_ip_id_1 |-> call.arg.ipid_A,
                                      zombie_ip_id_2 |-> None],
                       done |-> (call.arg.ipid_A = None),
                       ret |-> ZombieUnreachable])
    /\ UNCHANGED <<args, scanvars, call>>

\* Spoof: SYN to the target with the zombie as its source.
IdleSpoof ==
    /\ call.fn = "send_idle_scan_packet"
    /\ IsSome(result)
    /\ ~Unwrap(result).done
    /\ Unwrap(result).trail = <<"Probe1">>
    /\ result' = Some([Unwrap(result) EXCEPT !.trail = Append(@, "Spoof")])
    /\ UNCHANGED <<args, scanvars, call>>

\* Probe2: SYN/ACK to the zombie; its RST gives ipid_B and the verdict follows.
IdleProbe2 ==
    /\ call.fn = "send_idle_scan_packet"
    /\ IsSome(result)
    /\ ~Unwrap(result).done
    /\ Unwrap(result).trail = <<"Probe1", "Spoof">>
    /\ result' = Some([Unwrap(result) EXCEPT
                         !.trail = Append(@, "Probe2"),
                         !.idle_rets.zombie_ip_id_2 = call.arg.ipid_B,
                         !.done = TRUE,
                         !.ret = IF call.arg.ipid_B = None THEN ZombieUnreachable
                                 ELSE IdleOutcome(IdleDelta(Unwrap(call.arg.ipid_A),
                                                            Unwrap(call.arg.ipid_B)))])
    /\ UNCHANGED <<args, scanvars, call>>

\* ---- flood packets ----
IPV4_HEADER_SIZE == 20
UDP_HEADER_SIZE == 8
ICMP_HEADER_SIZE == 8
UDP_DATA_SIZE == 0
TTL == 64

\* [0u8; ..] seen through MutableIpv4Packet: every field of the header is zero.
ZeroIpv4Header ==
    [version |-> 0, header_length |-> 0, dscp_ecn |-> 0, total_length |-> 0,
     identification |-> 0, flags |-> 0, fragment_offset |-> 0, ttl |-> 0,
     next_level_protocol |-> 0, checksum |-> 0,
     source |-> <<0, 0, 0, 0>>, destination |-> <<0, 0, 0, 0>>]

\* The ten 16-bit big-endian words of the 20-byte header.
Ipv4Words(h) ==
    <<(h.version * 16 + h.header_length) * 256 + h.dscp_ecn,
      h.total_length,
      h.identification,
      h.flags * 8192 + h.fragment_offset,
      h.ttl * 256 + h.next_level_protocol,
      h.checksum,
      h.source[1] * 256 + h.source[2],
      h.source[3] * 256 + h.source[4],
      h.destination[1] * 256 + h.destination[2],
      h.destination[3] * 256 + h.destination[4]>>

RECURSIVE SumWords(_)
SumWords(ws) == IF ws = <<>> THEN 0 ELSE Head(ws) + SumWords(Tail(ws))

\* End-around carry: the sum folded into 16 bits.
RECURSIVE Fold(_)
Fold(x) == IF x > 65535 THEN Fold((x % 65536) + (x \div 65536)) ELSE x

\* The 16-bit one's-complement checksum of a sequence of words.
OnesComplement(ws) == 65535 - Fold(SumWords(ws))

\* ipv4::checksum(&ip_header.to_immutable()): over the header as it is at the call,
\* the checksum word itself left out.
Ipv4Checksum(h) == OnesComplement(Ipv4Words([h EXCEPT !.checksum = 0]))

\* send_udp_flood_packet, the statements on ip_header in their order: the checksum
\* is taken and stored, then source and destination are set.
UdpFloodIpHeader(a) ==
    LET h1 == [ZeroIpv4Header EXCEPT
                  !.version = 4,
                  !.header_length = 5,
                  !.total_length = IPV4_HEADER_SIZE + UDP_HEADER_SIZE + UDP_DATA_SIZE,
                  !.identification = a.id,
                  !.flags = 2,
                  !.ttl = TTL,
                  !.next_level_protocol = 17]
        h2 == [h1 EXCEPT !.checksum = Ipv4Checksum(h1)]
    IN [h2 EXCEPT !.source = a.src_ipv4, !.destination = a.dst_ipv4]

\* send_icmp_flood_packet, the statements on ip_header in their order: source and
\* destination are set, then the other fields, then the checksum is taken and stored.
IcmpFloodIpHeader(a) ==
    LET h1 == [ZeroIpv4Header EXCEPT
                  !.version = 4,
                  !.header_length = 5,
                  !.source = a.src_ipv4,
                  !.destination = a.dst_ipv4,
                  !.total_length = IPV4_HEADER_SIZE + ICMP_HEADER_SIZE,
                  !.identification = a.id,
                  !.flags = 2,
                  !.ttl = TTL,
                  !.next_level_protocol = 1]
    IN [h1 EXCEPT !.checksum = Ipv4Checksum(h1)]

\* The UDP header with its checksum over the pseudo-header and the header.
UdpFloodHeader(a) ==
    LET len == UDP_HEADER_SIZE + UDP_DATA_SIZE
        pseudo == <<a.src_ipv4[1] * 256 + a.src_ipv4[2], a.src_ipv4[3] * 256 + a.src_ipv4[4],
                    a.dst_ipv4[1] * 256 + a.dst_ipv4[2], a.dst_ipv4[3] * 256 + a.dst_ipv4[4],
                    17, len>>
    IN [source |-> a.src_port, destination |-> a.dst_port, length |-> len,
        checksum |-> OnesComplement(pseudo \o <<a.src_port, a.dst_port, len, 0>>)]

\* The echo request header: type 8, code 0, identifier 2, sequence number 1.
IcmpFloodHeader ==
    [icmp_type |-> 8, icmp_code |-> 0, identifier |-> 2, sequence_number |-> 1,
     checksum |-> OnesComplement(<<8 * 256 + 0, 0, 2, 1>>)]

\* ip_buff as it is handed to layer3_ipv4_send.
FloodBuffer(c) ==
    IF c.fn = "send_udp_flood_packet"
    THEN [ip |-> UdpFloodIpHeader(c.arg), transport |-> UdpFloodHeader(c.arg)]
    ELSE [ip |-> IcmpFloodIpHeader(c.arg), transport |-> IcmpFloodHeader]

IsFlood == call.fn \in {"send_udp_flood_packet", "send_icmp_flood_packet"}

\* The statements before the loop: the buffer is built once.
FloodBuild ==
    /\ IsFlood
    /\ result = None
    /\ result' = Some([buff |-> FloodBuffer(call), calls |-> <<>>, done |-> FALSE,
                       ret |-> "none"])
    /\ UNCHANGED <<args, scanvars, call>>

\* Mutant of AfterSend: the result of layer3_ipv4_send is ignored.
AfterSendIgnoreError(r, ok) ==
    [r EXCEPT !.calls = Append(@, [buff |-> r.buff, ok |-> ok])]

\* let _ret = layer3_ipv4_send(src_ipv4, dst_ipv4, &ip_buff, vec![], 0)?;
\* the call is made with ip_buff and an error returns from the function.
AfterSend(r, ok) ==
    [r EXCEPT !.calls = Append(@, [buff |-> r.buff, ok |-> ok]),
              !.done = ~ok,
              !.ret = IF ok THEN @ ELSE "Err"]

\* One iteration of `for _ in 0..max_same_packet`; the send succeeds or fails.
FloodSend ==
    /\ IsFlood
    /\ IsSome(result)
    /\ ~Unwrap(result).done
    /\ Len(Unwrap(result).calls) < call.arg.max_same_packet
    /\ \E ok \in BOOLEAN : result' = Some(AfterSend(Unwrap(result), ok))
    /\ UNCHANGED <<args, scanvars, call>>

\* The loop is over: Ok(()).
FloodReturn ==
    /\ IsFlood
    /\ IsSome(result)
    /\ ~Unwrap(result).done
    /\ Len(Unwrap(result).calls) = call.arg.max_same_packet
    /\ result' = Some([Unwrap(result) EXCEPT !.done = TRUE, !.ret = "Ok"])
    /\ UNCHANGED <<args, scanvars, call>>

PureNext ==
    \/ FloodBuild
    \/ FloodSend
    \/ FloodReturn
    \/ ApplyMacPrefix
    \/ ApplyAliveHost
    \/ ApplyGetNmapMacPrefixes
    \/ ApplyRunScan
    \/ IdleProbe1
    \/ IdleSpoof
    \/ IdleProbe2

PureSpec == PureInit /\ [][PureNext]_vars

\* ---- properties -------------------------------------------------------------------
\* The consumer loop is running or has run: enumeration ended without an early return.
Consuming == Enumerated /\ (api = "arp_scan" => target.target_type = "Ipv4")

\* Message i of the channel makes the consumer return an error.
IsErrMsg(i) == IF api = "arp_scan" THEN ~chan[i].scan_ret.ok ELSE ~chan[i].ok
ErrOf(i) == IF api = "arp_scan" THEN chan[i].scan_ret.err ELSE chan[i].err

ReturnedOk == pc = "returned" /\ ret.kind = "Ok"
ReturnedErr == pc = "returned" /\ ret.kind = "Err"

\* The result map the verdicts of this call are filed in, and the key of message i.
Filed == IF api = "scan" /\ IsSome(protocol) THEN ip_ret ELSE tcpudp_ret
KeyOf(i) == IF api = "scan" /\ IsSome(protocol) THEN Unwrap(chan[i].procotol) ELSE chan[i].dst_port

\* Indices of the merged verdicts (messages read so far that were Ok) for ip.
MergedFor(ip) == {i \in 1..taken : chan[i].ok /\ chan[i].dst_ip = ip}

C2_OneMessagePerTask ==
    \A t \in 1..Len(tasks) :
        /\ tasks[t].runs <= 1
        /\ tasks[t].st \in {"finished", "panicked"} => tasks[t].runs = 1 /\ tasks[t].sends = 1

\* C3: in scan() and scan6() no error message is ever read without returning; the
\* call returns on the first error message in arrival order, with exactly its error,
\* however many verdicts were merged before it.
C3_FirstErrorReturned ==
    (api \in {"scan", "scan6"}) =>
        /\ pc = "run" => \A i \in 1..taken : ~IsErrMsg(i)
        /\ ReturnedOk => \A i \in 1..taken : ~IsErrMsg(i)
        /\ (ReturnedErr /\ Consuming) =>
              /\ taken >= 1
              /\ IsErrMsg(taken)
              /\ \A i \in 1..(taken - 1) : ~IsErrMsg(i)
              /\ ret.err = ErrOf(taken)

C3_Witness ==
    /\ api \in {"scan", "scan6"}
    /\ ReturnedErr /\ Consuming
    /\ taken = 2
    /\ Filed # EmptyMap

\* C4: the RTT stored for an IP is the RTT of the first merged verdict for that IP
\* that carried one, and None when no merged verdict for that IP carried one.
C4_RttFirstWins ==
    (api \in {"scan", "scan6"}) =>
        \A ip \in DOMAIN Filed :
            LET withRtt == {i \in MergedFor(ip) : IsSome(chan[i].rtt)}
            IN IF withRtt = {} THEN Filed[ip].rtt = None
               ELSE Filed[ip].rtt = chan[CHOOSE i \in withRtt : \A j \in withRtt : i <= j].rtt

C4_Witness ==
    /\ api \in {"scan", "scan6"}
    /\ ReturnedOk
    /\ \E ip \in DOMAIN Filed :
          \E i, j \in MergedFor(ip) :
              /\ i < j
              /\ IsSome(chan[i].rtt) /\ IsSome(chan[j].rtt)
              /\ chan[i].rtt # chan[j].rtt
              /\ Filed[ip].rtt = chan[i].rtt

\* C5: the status stored under (ip, port) or (ip, protocol) is the verdict of the
\* last merged message for that key, and every stored key has such a message.
C5_LastVerdictWins ==
    (api \in {"scan", "scan6"}) =>
        \A ip \in DOMAIN Filed :
            \A key \in DOMAIN Filed[ip].status :
                LET forKey == {i \in MergedFor(ip) : KeyOf(i) = key}
                IN /\ forKey # {}
                   /\ Filed[ip].status[key] =
                         chan[CHOOSE i \in forKey : \A j \in forKey : j <= i].scan_ret

C5_Witness ==
    /\ api \in {"scan", "scan6"}
    /\ ReturnedOk
    /\ \E ip \in DOMAIN Filed :
          \E i, j \in MergedFor(ip) :
              /\ i < j
              /\ KeyOf(i) = KeyOf(j)
              /\ chan[i].scan_ret # chan[j].scan_ret
              /\ Filed[ip].status[KeyOf(j)] = chan[j].scan_ret

\* C6: at every moment at most one probe per (destination ip, destination port) of
\* the scan's method is in flight.
C6_OneProbePerPortInFlight ==
    (api \in {"scan", "scan6"}) =>
        \A t, u \in Running :
            (tasks[t].dst_ip = tasks[u].dst_ip /\ tasks[t].dst_port = tasks[u].dst_port)
                => t = u

\* C7: no two in-flight probes of a scan share the 4-tuple
\* (src_ip, src_port, dst_ip, dst_port).
C7_UniqueFourTuple ==
    (api \in {"scan", "scan6"}) =>
        \A t, u \in Running :
            (/\ tasks[t].src_ip = tasks[u].src_ip
             /\ tasks[t].src_port = tasks[u].src_port
             /\ tasks[t].dst_ip = tasks[u].dst_ip
             /\ tasks[t].dst_port = tasks[u].dst_port) => t = u

ProbeErrorReturned == ReturnedErr /\ Len(ret.err) = 2

AllFinished == \A t \in 1..Len(tasks) : tasks[t].st = "finished" /\ tasks[t].sends = 1

C9_NoCancellation ==
    /\ [](ProbeErrorReturned => \A t \in 1..Len(tasks) : tasks[t].st # "panicked")
    /\ [][ProbeErrorReturned =>
            /\ Len(tasks') = Len(tasks)
            /\ chan' = chan
            /\ \A t \in 1..Len(tasks) :
                  tasks[t].st = "finished" => tasks'[t].st = "finished"]_vars
    /\ (ProbeErrorReturned ~> AllFinished)

C9_Witness ==
    /\ ProbeErrorReturned
    /\ AllFinished
    /\ Len(chan) < Len(tasks)

\* C10: every IP key of TcpUdpScanResults.results and of IpScanResults.results maps
\* to a status map with at least one entry, at every point of the aggregation, and
\* no step removes an IP key or a status entry.
StatusMapsNonEmpty ==
    /\ \A ip \in DOMAIN tcpudp_ret : DOMAIN tcpudp_ret[ip].status # {}
    /\ \A ip \in DOMAIN ip_ret : DOMAIN ip_ret[ip].status # {}

EntriesKept(results, results2) ==
    \A ip \in DOMAIN results :
        /\ ip \in DOMAIN results2
        /\ DOMAIN results[ip].status \subseteq DOMAIN results2[ip].status

C10_StatusMapNonEmpty ==
    /\ []StatusMapsNonEmpty
    /\ [][EntriesKept(tcpudp_ret, tcpudp_ret') /\ EntriesKept(ip_ret, ip_ret')]_vars

C10_Witness ==
    /\ pc = "run"
    /\ tcpudp_ret # EmptyMap
    /\ \E ip \in DOMAIN tcpudp_ret : Cardinality(DOMAIN tcpudp_ret[ip].status) = 1

\* C11: every IP key of the result maps is the address of a host of the target, and
\* every port with a status under an IP in TcpUdpScanResults is an entry of the port
\* list of a host of the target with that address.
AskedFor(ip, port) ==
    \E h \in 1..Len(Hosts) :
        /\ Hosts[h].addr = ip
        /\ \E k \in 1..Len(Hosts[h].ports) : Hosts[h].ports[k] = port

IsHostOfTarget(ip) == \E h \in 1..Len(Hosts) : Hosts[h].addr = ip

C11_OnlyAskedPorts ==
    /\ \A ip \in DOMAIN tcpudp_ret :
          /\ IsHostOfTarget(ip)
          /\ \A port \in DOMAIN tcpudp_ret[ip].status : AskedFor(ip, port)
    /\ \A ip \in DOMAIN ip_ret : IsHostOfTarget(ip)

C11_Witness ==
    /\ ReturnedOk
    /\ Len(Hosts) = 2
    /\ Hosts[1].addr # Hosts[2].addr
    /\ Hosts[1].ports = <<22>> /\ Hosts[2].ports = <<80>>
    /\ DOMAIN tcpudp_ret = {Hosts[1].addr, Hosts[2].addr}
    /\ DOMAIN tcpudp_ret[Hosts[1].addr].status = {22}
    /\ DOMAIN tcpudp_ret[Hosts[2].addr].status = {80}

\* C12 as stated: a call on a target with no hosts submits nothing, reads nothing,
\* is never blocked, and when it has returned it has returned Ok with empty maps.
NoHosts == target.hosts = <<>> /\ target.hosts6 = <<>>

NothingDone ==
    /\ tasks = <<>> /\ chan = <<>> /\ taken = 0 /\ recv_size = 0
    /\ tcpudp_ret = EmptyMap /\ ip_ret = EmptyMap /\ alive_hosts = EmptyMap

C12_EmptyTargetReturnsOk ==
    NoHosts =>
        /\ NothingDone
        /\ pc = "run" => ENABLED (ReturnOk \/ ArpNotSupported)
        /\ pc = "returned" => ReturnedOk

\* C12 as amended: scan and scan6 on a target with no hosts, and arp_scan on an IPv4
\* target with no hosts, return Ok with empty maps; arp_scan on a target with no
\* hosts whose type is not IPv4 returns NotSupportIpTypeForArpScan.  In every case
\* no task is submitted, no message is read and the call is never blocked.
ArpOnNonIpv4 == api = "arp_scan" /\ target.target_type # "Ipv4"

C12_EmptyTarget ==
    NoHosts =>
        /\ NothingDone
        /\ pc = "run" => IF ArpOnNonIpv4 THEN ENABLED ArpNotSupported ELSE ENABLED ReturnOk
        /\ pc = "returned" =>
              IF ArpOnNonIpv4 THEN ReturnedErr /\ ret.err = <<"NotSupportIpTypeForArpScan">>
              ELSE ReturnedOk

C12_Witness == NoHosts /\ ReturnedOk /\ NothingDone

\* C13: with threads_num = 1 at most one closure runs at any time; submission is
\* never blocked (an enumeration step is enabled until the enumeration is over) and
\* delivery is never blocked (a running closure can always end); the consumer reads
\* only after the enumeration is over; the call eventually returns, and when it
\* returns Ok every submitted task's message has been merged.
Serial == threads_num = 1

C13_SerializedNoDeadlock ==
    /\ [](Serial => Cardinality(Running) <= 1)
    /\ [](Serial /\ taken > 0 => Enumerated)
    /\ [](Serial /\ pc = "run" /\ ~Enumerated =>
            ENABLED (EnumerateHost \/ ArpEnumerateHost \/ ArpNotSupported))
    /\ [](Serial => \A t \in Running : ENABLED (FinishTask(t) \/ PanicTask(t)))
    /\ [](Serial /\ ReturnedOk => taken = Len(tasks))
    /\ (Serial ~> pc = "returned")

\* The same without the calls whose closures panic inside run_scan.
C13_SerializedNoDeadlockUnlessPanic ==
    /\ [](Serial => Cardinality(Running) <= 1)
    /\ [](Serial /\ taken > 0 => Enumerated)
    /\ [](Serial /\ pc = "run" /\ ~Enumerated =>
            ENABLED (EnumerateHost \/ ArpEnumerateHost \/ ArpNotSupported))
    /\ [](Serial => \A t \in Running : ENABLED (FinishTask(t) \/ PanicTask(t)))
    /\ [](Serial /\ ReturnedOk => taken = Len(tasks))
    /\ ((Serial /\ ~RunScanPanics) ~> pc = "returned")

\* C14: at most PoolWidth(threads_num) closures run at any time; a closure starts
\* only from the queue and only while fewer than that many run; it is run by one
\* worker, once, and stays running until its closure ends, which is the step of its
\* send (or of its panic inside run_scan).
Started(t) == tasks[t].st = "queued" /\ tasks'[t].st = "running"
Ended(t) == tasks[t].st = "running" /\ tasks'[t].st # "running"

C14_AtMostWidthRunning ==
    /\ [](Cardinality(Running) <= PoolWidth(threads_num))
    /\ [](\A t \in 1..Len(tasks) : tasks[t].runs <= 1)
    /\ [][\A t \in 1..Len(tasks) :
            /\ tasks'[t].st # tasks[t].st => Started(t) \/ Ended(t)
            /\ Started(t) => Cardinality(Running) < PoolWidth(threads_num)
            /\ Ended(t) =>
                  \/ tasks'[t].st = "finished" /\ tasks'[t].sends = tasks[t].sends + 1
                  \/ tasks'[t].st = "panicked" /\ RunScanPanics]_vars

C14_Witness ==
    /\ threads_num = 1
    /\ Cardinality(Running) = 1
    /\ Queued # {}

\* C15: with threads_num = 0 the pool has at least one worker, and the call
\* eventually has returned with every submitted closure run to its end.
AutoSized == threads_num = 0

C15_AutoSizingRuns ==
    /\ [](AutoSized => PoolWidth(threads_num) >= 1)
    /\ (AutoSized ~> (pc = "returned" /\ AllFinished))

\* The same without the calls whose closures panic inside run_scan.
C15_AutoSizingRunsUnlessPanic ==
    /\ [](AutoSized => PoolWidth(threads_num) >= 1)
    /\ ((AutoSized /\ ~RunScanPanics) ~> (pc = "returned" /\ AllFinished))

\* C16: against a static target (all verdicts delivered for one (ip, key) are equal)
\* the statuses returned by a successful scan are a function of the set of delivered
\* verdicts alone: the IP keys are the probed addresses, the keys under an IP are the
\* probed keys of that IP, and each holds the verdict of that (ip, key), whatever the
\* order in which the workers ended and the messages arrived.
StaticTarget ==
    \A i, j \in 1..Len(chan) :
        (chan[i].ok /\ chan[j].ok /\ chan[i].dst_ip = chan[j].dst_ip /\ KeyOf(i) = KeyOf(j))
            => chan[i].scan_ret = chan[j].scan_ret

C16_OrderIndependent ==
    (api \in {"scan", "scan6"} /\ ReturnedOk /\ StaticTarget) =>
        /\ Len(chan) = Len(tasks)
        /\ DOMAIN Filed = {tasks[t].dst_ip : t \in 1..Len(tasks)}
        /\ \A ip \in DOMAIN Filed :
              DOMAIN Filed[ip].status = {KeyOf(i) : i \in {j \in 1..Len(chan) : chan[j].dst_ip = ip}}
        /\ \A i \in 1..Len(chan) : Filed[chan[i].dst_ip].status[KeyOf(i)] = chan[i].scan_ret

\* A successful scan whose two messages arrived in the reverse of submission order.
C16_Witness ==
    /\ api \in {"scan", "scan6"}
    /\ ReturnedOk
    /\ StaticTarget
    /\ Len(chan) = 2
    /\ chan[1].rtt = Some(2) /\ chan[2].rtt = Some(1)
    /\ chan[1].dst_ip = chan[2].dst_ip
    /\ KeyOf(1) # KeyOf(2)
    /\ chan[1].scan_ret # chan[2].scan_ret

\* C17: once arp_scan has enumerated its hosts and returned, it has returned Ok,
\* even when the probe of some host returned an error; every host whose probe
\* observed a reply is a key of alive_hosts, and a host whose probes only failed or
\* saw no reply is not.
ArpReplied(i) ==
    chan[i].scan_ret.ok /\ IsSome(chan[i].scan_ret.mac) /\ IsSome(chan[i].scan_ret.rtt)

C17_ArpProbeErrorTolerated ==
    (api = "arp_scan" /\ pc = "returned" /\ Consuming) =>
        /\ ReturnedOk
        /\ DOMAIN alive_hosts = {chan[i].dst_ip : i \in {j \in 1..Len(chan) : ArpReplied(j)}}

\* C18: arp_scan on a target whose type is not IPv4 enumerates no host (so resolves
\* no source), submits no task and reads no message; its only step is the return of
\* NotSupportIpTypeForArpScan, which is enabled from the start.
C18_ArpNotSupportedAtOnce ==
    /\ [](ArpOnNonIpv4 =>
            /\ host_i = 1 /\ NothingDone
            /\ pc = "run" => ENABLED ArpNotSupported
            /\ pc = "returned" =>
                  ReturnedErr /\ ret.err = <<"NotSupportIpTypeForArpScan">>)
    /\ [][ArpOnNonIpv4 => (pc = "run" /\ pc' = "returned")]_vars

C18_Witness ==
    /\ ArpOnNonIpv4
    /\ target.hosts6 # <<>>
    /\ ReturnedErr
    /\ ret.err = <<"NotSupportIpTypeForArpScan">>

\* C19: when arp_scan has returned Ok, every submitted probe's message was read, the
\* keys of alive_hosts are exactly the hosts for which a probe observed a reply, and
\* the entry of a host holds the MAC of the last such reply read for it together
\* with the vendor text the prefix table gives for that MAC's first three bytes.
Hex2(b) == <<HexDigits[(b \div 16) + 1], HexDigits[(b % 16) + 1]>>

VendorOf(mac) ==
    LET oui == Hex2(mac[1]) \o Hex2(mac[2]) \o Hex2(mac[3])
        rows == {i \in 1..Len(NmapMacPrefixes) : NmapMacPrefixes[i].prefix = oui}
    IN IF rows = {} THEN ""
       ELSE NmapMacPrefixes[CHOOSE i \in rows : \A j \in rows : j <= i].ouis

RepliesFor(ip) == {i \in 1..taken : chan[i].dst_ip = ip /\ ArpReplied(i)}

C19_AliveIffReplied ==
    (api = "arp_scan" /\ ReturnedOk) =>
        /\ taken = Len(tasks) /\ Len(tasks) = Len(Hosts)
        /\ DOMAIN alive_hosts = {Hosts[h].addr : h \in {k \in 1..Len(Hosts) : RepliesFor(Hosts[k].addr) # {}}}
        /\ \A ip \in DOMAIN alive_hosts :
              LET last == CHOOSE i \in RepliesFor(ip) : \A j \in RepliesFor(ip) : j <= i
                  mac == Unwrap(chan[last].scan_ret.mac)
              IN /\ alive_hosts[ip].mac_addr = mac
                 /\ alive_hosts[ip].ouis = VendorOf(mac)

\* Two hosts, one replied and one did not.
C19_Witness ==
    /\ api = "arp_scan"
    /\ ReturnedOk
    /\ Len(Hosts) = 2
    /\ Hosts[1].addr # Hosts[2].addr
    /\ Cardinality(DOMAIN alive_hosts) = 1
    /\ \E ip \in DOMAIN alive_hosts : alive_hosts[ip].ouis = "ACME Networks"

\* C20: no entry of alive_hosts holds the MAC of the interface the requests were
\* sent from.
C20_NoOwnMac ==
    api = "arp_scan" => \A ip \in DOMAIN alive_hosts : alive_hosts[ip].mac_addr # SrcMac

\* C21: alive_hosts never has more entries than the target has hosts, and each of
\* its keys is the address of a host of the target.
C21_AtMostNEntries ==
    api = "arp_scan" =>
        /\ Cardinality(DOMAIN alive_hosts) <= Len(Hosts)
        /\ \A ip \in DOMAIN alive_hosts : IsHostOfTarget(ip)

\* Two hosts replied, the second one's message arrived first.
C21_Witness ==
    /\ api = "arp_scan"
    /\ ReturnedOk
    /\ Len(Hosts) = 2
    /\ Cardinality(DOMAIN alive_hosts) = 2
    /\ chan[1].dst_ip = Hosts[2].addr

\* C22: for every byte the padded {:X} text is its two-digit uppercase hexadecimal,
\* and the prefix built for a MAC is exactly six characters, each one of 0-9 A-F,
\* namely the two digits of byte 0, of byte 1 and of byte 2 in that order.
IsHexDigit(ch) == \E d \in 1..16 : HexDigits[d] = ch

C22_PrefixSixHexDigits ==
    /\ \A b \in 0..255 : PadHex(FormatX(b)) = Hex2(b)
    /\ (call.fn = "mac_prefix" /\ IsSome(result)) =>
          LET prefix == Unwrap(result)
              mac == call.arg
          IN /\ Len(prefix) = 6
             /\ \A k \in 1..6 : IsHexDigit(prefix[k])
             /\ prefix = Hex2(mac[1]) \o Hex2(mac[2]) \o Hex2(mac[3])

C22_Witness ==
    /\ call.fn = "mac_prefix"
    /\ call.arg = <<0, 10, 255, 0, 0, 0>>
    /\ result = Some(<<"0", "0", "0", "A", "F", "F">>)

\* C23: the entry built for a discovered MAC holds that MAC, and its vendor text is
\* the text of a table row whose prefix equals the MAC's six-digit prefix exactly;
\* when no row has that prefix the entry is built all the same, with an empty text.
C23_VendorExactMatch ==
    (call.fn = "alive_host" /\ IsSome(result)) =>
        LET aah == Unwrap(result)
            mac == call.arg.m
            table == call.arg.nmap_mac_prefixes
            prefix == Hex2(mac[1]) \o Hex2(mac[2]) \o Hex2(mac[3])
            rows == {i \in 1..Len(table) : table[i].prefix = prefix}
        IN /\ aah.mac_addr = mac
           /\ rows = {} => aah.ouis = ""
           /\ rows # {} => \E i \in rows : aah.ouis = table[i].ouis

\* A miss although a row's prefix starts the MAC's prefix.
C23_Witness ==
    /\ call.fn = "alive_host"
    /\ call.arg.m = <<0, 17, 34, 51, 68, 85>>
    /\ Len(call.arg.nmap_mac_prefixes) = 1
    /\ call.arg.nmap_mac_prefixes[1].prefix = <<"0", "0", "1", "1">>
    /\ IsSome(result)
    /\ Unwrap(result).ouis = ""
    /\ Unwrap(result).mac_addr = call.arg.m

\* C24: the parsed table has, in file order, one entry for every line that is six
\* uppercase hex digits, a space and a vendor text, with that prefix and that text
\* (a '#' inside the vendor text included), and no entry for any other line: an
\* empty line, a line that starts with '#', a line whose first token is not six
\* uppercase hex digits.
WellFormedLine(l) ==
    /\ Len(l) >= 8
    /\ \A k \in 1..6 : IsHexDigit(l[k])
    /\ l[7] = " "

RECURSIVE ExpectedEntries(_)
ExpectedEntries(lines) ==
    IF lines = <<>> THEN <<>>
    ELSE LET l == Head(lines)
         IN (IF WellFormedLine(l)
             THEN <<[prefix |-> SubSeq(l, 1, 6), ouis |-> SubSeq(l, 8, Len(l))]>>
             ELSE <<>>) \o ExpectedEntries(Tail(lines))

C24_ParsedEntries ==
    (call.fn = "get_nmap_mac_prefixes" /\ IsSome(result)) =>
        Unwrap(result) = ExpectedEntries(call.arg)

\* C25: in an Idle scan called without zombie address or without zombie port no
\* closure panics and none delivers a probe's result, and when the call has returned
\* after submitting its closures it has returned the InvalidConfiguration error.
IdleWithoutZombie ==
    api = "scan" /\ method = "Idle" /\ (zombie_ipv4 = None \/ zombie_port = None)

C25_IdleWithoutZombieRejected ==
    IdleWithoutZombie =>
        /\ \A t \in 1..Len(tasks) : tasks[t].st # "panicked" /\ tasks[t].sends = 0
        /\ (pc = "returned" /\ Enumerated /\ tasks # <<>>) =>
              ReturnedErr /\ ret.err = <<"InvalidConfiguration">>

\* C26: when a lookup of the source resolution yields nothing the call has returned,
\* with the error of that lookup and without a result: CanNotFoundSourceAddress for
\* the source address (scan, scan6, arp_scan), CanNotFoundInterface for the
\* interface and CanNotFoundMacAddress for the interface's MAC (arp_scan).
ReturnedError(name) == ReturnedErr /\ ret.err = <<name>>

C26_SourceResolutionErrors ==
    /\ found.src = "nothing" => ReturnedError("CanNotFoundSourceAddress")
    /\ found.interface = "nothing" => ReturnedError("CanNotFoundInterface")
    /\ found.mac = "nothing" => ReturnedError("CanNotFoundMacAddress")
    /\ (found.interface # "skipped" \/ found.mac # "skipped") => api = "arp_scan"
    /\ "nothing" \in {found.src, found.interface, found.mac} =>
          tcpudp_ret = EmptyMap /\ ip_ret = EmptyMap /\ alive_hosts = EmptyMap

\* The second host's interface has no MAC, after the first host's closure was queued.
C26_Witness ==
    /\ api = "arp_scan"
    /\ found.mac = "nothing"
    /\ host_i = 2
    /\ Len(tasks) = 1
    /\ ReturnedError("CanNotFoundMacAddress")

\* C27: for every method, the status stored for a probe that completed without
\* error is the verdict its engine returned, unchanged, and is one of the verdicts
\* the mapping table allows for that method.
StatusesOf(results) ==
    UNION {{results[ip].status[k] : k \in DOMAIN results[ip].status} : ip \in DOMAIN results}

StoredStatuses(maps) == StatusesOf(maps.tcpudp_ret) \cup StatusesOf(maps.ip_ret)

C27_VerdictInAllowedSet ==
    (call.fn \in {"run_scan", "run_scan6"} /\ IsSome(result) /\ Unwrap(result).ok) =>
        LET r == Unwrap(result)
        IN /\ StoredStatuses(r.stored) = {r.engine}
           /\ StoredStatuses(r.stored) \subseteq EngineVerdicts(call.arg.method)
           /\ r.engine \in TargetScanStatus

\* A FIN probe that got no reply.
C27_Witness ==
    /\ call.fn = "run_scan"
    /\ call.arg.method = "Fin"
    /\ IsSome(result)
    /\ Unwrap(result).ok
    /\ StoredStatuses(Unwrap(result).stored) = {"OpenOrFiltered"}

\* C28: every status of an ACK scan is Unfiltered or Filtered: a RST is stored as
\* Unfiltered, no reply and an ICMP unreachable are stored as Filtered.
C28_AckNeverOpen ==
    (call.fn \in {"run_scan", "run_scan6"} /\ call.arg.method = "Ack"
        /\ IsSome(result) /\ Unwrap(result).ok) =>
        LET r == Unwrap(result)
        IN /\ StoredStatuses(r.stored) \subseteq {"Unfiltered", "Filtered"}
           /\ StoredStatuses(r.stored) # {}
           /\ r.observed = "rst" => StoredStatuses(r.stored) = {"Unfiltered"}
           /\ r.observed \in {"no_reply", "icmp_unreachable"} =>
                 StoredStatuses(r.stored) = {"Filtered"}

C28_Witness ==
    /\ call.fn = "run_scan"
    /\ call.arg.method = "Ack"
    /\ IsSome(result)
    /\ Unwrap(result).observed = "rst"
    /\ StoredStatuses(Unwrap(result).stored) = {"Unfiltered"}

\* The verdict a method gives to a probe nothing answered.
NoReplyVerdict(m) ==
    IF m \in {"Connect", "Syn", "Ack", "Window"} THEN "Filtered" ELSE "OpenOrFiltered"

TimedOut(r) == r.observed \in {"no_reply", "zombie_no_reply"}

\* C29 as stated: a probe whose timeout expired sends an Ok message with the method's
\* no-reply verdict, which is stored; with a timeout of zero every probe that was sent
\* does so.
C29_TimeoutIsVerdict ==
    (call.fn \in {"run_scan", "run_scan6"} /\ IsSome(result)) =>
        LET r == Unwrap(result)
        IN /\ TimedOut(r) =>
                 r.ok /\ StoredStatuses(r.stored) = {NoReplyVerdict(call.arg.method)}
           /\ (call.arg.timeout = 0 /\ r.observed # "send_failed") => TimedOut(r)

\* C29: for every method but Idle, a probe whose timeout expired sends an Ok message
\* with the method's no-reply verdict, which is stored, and with a timeout of zero every
\* probe that was sent does so; an Idle probe whose zombie does not answer in time
\* sends an error and stores nothing.
C29_TimeoutIsVerdictExceptIdle ==
    (call.fn \in {"run_scan", "run_scan6"} /\ IsSome(result)) =>
        LET r == Unwrap(result)
        IN /\ (TimedOut(r) /\ call.arg.method # "Idle") =>
                 r.ok /\ StoredStatuses(r.stored) = {NoReplyVerdict(call.arg.method)}
           /\ (TimedOut(r) /\ call.arg.method = "Idle") =>
                 ~r.ok /\ r.stored = NothingStored
           /\ (call.arg.timeout = 0 /\ r.observed # "send_failed") => TimedOut(r)

C29_Witness ==
    /\ call.fn = "run_scan"
    /\ call.arg.method = "Udp"
    /\ call.arg.timeout = 0
    /\ IsSome(result)
    /\ Unwrap(result).ok
    /\ StoredStatuses(Unwrap(result).stored) = {"OpenOrFiltered"}

\* The run of the Idle engine is over and both probes were answered.
IdleAnswered ==
    /\ call.fn = "send_idle_scan_packet"
    /\ IsSome(result)
    /\ Unwrap(result).done
    /\ IsSome(call.arg.ipid_A)
    /\ IsSome(call.arg.ipid_B)

\* ipid_B is ipid_A advanced by n on a 16-bit counter.
AdvancedBy(n) ==
    LET a == Unwrap(call.arg.ipid_A)
        b == Unwrap(call.arg.ipid_B)
    IN \/ b = a + n
       \/ b = a + n - 65536

\* C30: the Idle engine goes Probe1, Spoof, Probe2 in that order, and when the second
\* IP-ID is the first advanced by 2 on the 16-bit counter (wrap-around included) the
\* verdict is Open, when advanced by 1 it is Closed; 100 then 102 gives Open.
C30_IdleDeltaVerdict ==
    (call.fn = "send_idle_scan_packet" /\ IsSome(result)) =>
        LET r == Unwrap(result)
        IN /\ r.trail \in {<<"Probe1">>, <<"Probe1", "Spoof">>, <<"Probe1", "Spoof", "Probe2">>}
           /\ IdleAnswered =>
                 /\ r.trail = <<"Probe1", "Spoof", "Probe2">>
                 /\ r.idle_rets = [zombie_ip_id_1 |-> call.arg.ipid_A,
                                   zombie_ip_id_2 |-> call.arg.ipid_B]
                 /\ AdvancedBy(2) => r.ret.ok /\ r.ret.status = "Open"
                 /\ AdvancedBy(1) => r.ret.ok /\ r.ret.status = "Closed"
                 /\ (call.arg.ipid_A = Some(100) /\ call.arg.ipid_B = Some(102)) =>
                       r.ret.status = "Open"

C30_Witness ==
    /\ IdleAnswered
    /\ call.arg.ipid_A = Some(65535)
    /\ call.arg.ipid_B = Some(1)
    /\ Unwrap(result).trail = <<"Probe1", "Spoof", "Probe2">>
    /\ Unwrap(result).ret.status = "Open"

\* C31: an Idle run in which either zombie probe gets no answer ends with
\* ZombieUnreachable and no verdict (after a silent Probe1 nothing more is sent);
\* run_scan returns that error, nothing is stored and it is the error the scan returns.
ZombieSilent ==
    /\ call.fn = "send_idle_scan_packet"
    /\ IsSome(result)
    /\ Unwrap(result).done
    /\ (call.arg.ipid_A = None \/ call.arg.ipid_B = None)

C31_ZombieTimeoutAborts ==
    /\ ZombieSilent =>
          /\ Unwrap(result).ret = ZombieUnreachable
          /\ call.arg.ipid_A = None => Unwrap(result).trail = <<"Probe1">>
    /\ (call.fn = "run_scan" /\ call.arg.method = "Idle" /\ IsSome(result)
            /\ Unwrap(result).observed = "zombie_no_reply") =>
          /\ ~Unwrap(result).ok
          /\ Unwrap(result).err = <<"ZombieUnreachable">>
          /\ Unwrap(result).stored = NothingStored

C31_Witness ==
    /\ call.fn = "run_scan"
    /\ call.arg.method = "Idle"
    /\ call.arg.timeout = 3
    /\ IsSome(result)
    /\ Unwrap(result).observed = "zombie_no_reply"
    /\ Unwrap(result).err = <<"ZombieUnreachable">>

\* C32: under fair scheduling of the workers and of the calling thread, every call
\* eventually returns, whatever the method and the optional arguments.
C32_EventuallyReturns == <>(pc = "returned")

\* The same without the calls whose closures panic inside run_scan.
C32_EventuallyReturnsUnlessPanic == <>(pc = "returned" \/ (RunScanPanics /\ tasks # <<>>))

\* A TCP/UDP scan: scan() with no protocol argument, or scan6().
TcpUdpScan == api = "scan6" \/ (api = "scan" /\ protocol = None)

\* Every listed (host, port) has a status once the scan has returned Ok.
AllAskedPresent ==
    \A h \in 1..Len(Hosts) : \A k \in 1..Len(Hosts[h].ports) :
        /\ Hosts[h].addr \in DOMAIN tcpudp_ret
        /\ Hosts[h].ports[k] \in DOMAIN tcpudp_ret[Hosts[h].addr].status

\* C33 as stated: after Ok every listed (host, port) has a status, and the address of
\* a host entry with an empty port list is not a key of the result.
C33_CompleteOnSuccess ==
    (TcpUdpScan /\ ReturnedOk) =>
        /\ AllAskedPresent
        /\ \A h \in 1..Len(Hosts) :
              Hosts[h].ports = <<>> => Hosts[h].addr \notin DOMAIN tcpudp_ret

\* C33: after Ok every listed (host, port) has a status, and an address is a key of
\* the result exactly when some host entry with that address lists a port.
C33_CompleteOnSuccessByAddress ==
    (TcpUdpScan /\ ReturnedOk) =>
        /\ AllAskedPresent
        /\ \A h \in 1..Len(Hosts) :
              Hosts[h].addr \in DOMAIN tcpudp_ret <=>
                 \E g \in 1..Len(Hosts) :
                    Hosts[g].addr = Hosts[h].addr /\ Hosts[g].ports # <<>>

C33_Witness ==
    /\ TcpUdpScan
    /\ ReturnedOk
    /\ Len(Hosts) = 2
    /\ Hosts[1].ports = <<22, 80>>
    /\ Hosts[2].ports = <<>>
    /\ Hosts[2].addr # Hosts[1].addr
    /\ DOMAIN tcpudp_ret = {Hosts[1].addr}
    /\ DOMAIN tcpudp_ret[Hosts[1].addr].status = {22, 80}

\* Every verdict read so far has its status in the map m under its IP and key.
HoldsAllVerdicts(m) ==
    \A i \in 1..taken :
        chan[i].ok =>
            /\ chan[i].dst_ip \in DOMAIN m
            /\ KeyOf(i) \in DOMAIN m[chan[i].dst_ip].status

\* C34: in scan() every verdict is filed in IpScanResults when a protocol is supplied
\* and in TcpUdpScanResults otherwise, so the other map stays empty; the map a TCP/UDP
\* wrapper (protocol None) or ip_procotol_scan returns holds every verdict and the map
\* it drops is empty.
C34_OneMapHoldsAll ==
    api = "scan" =>
        /\ IsSome(protocol) => HoldsAllVerdicts(ip_ret) /\ tcpudp_ret = EmptyMap
        /\ protocol = None => HoldsAllVerdicts(tcpudp_ret) /\ ip_ret = EmptyMap
        /\ (method # "IpProcotol" /\ protocol = None) =>
              HoldsAllVerdicts(tcpudp_ret) /\ ip_ret = EmptyMap
        /\ method = "IpProcotol" => HoldsAllVerdicts(ip_ret) /\ tcpudp_ret = EmptyMap

C34_Witness ==
    /\ api = "scan"
    /\ method = "IpProcotol"
    /\ ReturnedOk
    /\ taken = 2
    /\ ip_ret # EmptyMap
    /\ tcpudp_ret = EmptyMap

\* ip_procotol_scan with its protocol supplied.
IpProtocolScan == api = "scan" /\ method = "IpProcotol" /\ IsSome(protocol)

\* The closures submitted for host entry h.
ProbesOf(h) == {t \in 1..Len(tasks) : tasks[t].host_i = h}

\* The last verdict read for ip.
LastMergedFor(ip) == CHOOSE i \in MergedFor(ip) : \A j \in MergedFor(ip) : j <= i

\* Every enumerated host entry has one probe per listed port, and after Ok each entry
\* that lists a port has exactly one status, under the protocol, which is the verdict
\* of the last message read for its address.
OneProbePerPortOneStatus ==
    /\ \A h \in 1..Len(Hosts) :
          h < host_i => Cardinality(ProbesOf(h)) = Len(Hosts[h].ports)
    /\ \A t \in 1..Len(tasks) :
          \E k \in 1..Len(Hosts[tasks[t].host_i].ports) :
             /\ tasks[t].dst_port = Hosts[tasks[t].host_i].ports[k]
             /\ tasks[t].dst_ip = Hosts[tasks[t].host_i].addr
    /\ \A i \in 1..Len(chan) : chan[i].ok => chan[i].procotol = protocol
    /\ ReturnedOk =>
          \A h \in 1..Len(Hosts) :
             Hosts[h].ports # <<>> =>
                /\ Hosts[h].addr \in DOMAIN ip_ret
                /\ DOMAIN ip_ret[Hosts[h].addr].status = {Unwrap(protocol)}
                /\ ip_ret[Hosts[h].addr].status[Unwrap(protocol)] =
                      chan[LastMergedFor(Hosts[h].addr)].scan_ret

\* C35 as stated: one probe per (host, listed port) and one status per host that lists
\* a port, and the address of a host entry with an empty port list is not a key of
\* IpScanResults.
C35_IpProtocolPerHost ==
    IpProtocolScan =>
        /\ OneProbePerPortOneStatus
        /\ ReturnedOk =>
              \A h \in 1..Len(Hosts) :
                 Hosts[h].ports = <<>> =>
                    ProbesOf(h) = {} /\ Hosts[h].addr \notin DOMAIN ip_ret

\* C35: one probe per (host, listed port) and one status per host that lists a port;
\* a host entry with an empty port list gets no probe, and an address is a key of
\* IpScanResults exactly when some host entry with that address lists a port.
C35_IpProtocolPerAddress ==
    IpProtocolScan =>
        /\ OneProbePerPortOneStatus
        /\ ReturnedOk =>
              \A h \in 1..Len(Hosts) :
                 /\ Hosts[h].ports = <<>> => ProbesOf(h) = {}
                 /\ Hosts[h].addr \in DOMAIN ip_ret <=>
                       \E g \in 1..Len(Hosts) :
                          Hosts[g].addr = Hosts[h].addr /\ Hosts[g].ports # <<>>

C35_Witness ==
    /\ IpProtocolScan
    /\ ReturnedOk
    /\ Len(Hosts) = 1
    /\ Hosts[1].ports = <<22, 80>>
    /\ Cardinality(ProbesOf(1)) = 2
    /\ chan[1].scan_ret # chan[2].scan_ret
    /\ DOMAIN ip_ret[Hosts[1].addr].status = {Unwrap(protocol)}
    /\ ip_ret[Hosts[1].addr].status[Unwrap(protocol)] = chan[2].scan_ret

\* The source resolution of host entry host_i failed and the call returned its error.
ResolutionFailed == IsSome(ResolveError(found))

\* The closures of the host entries before the k-th.
SubmittedBefore(k) ==
    IF api = "arp_scan" THEN k - 1 ELSE SumPorts(SubSeq(Hosts, 1, k - 1))

AllEnded == \A t \in 1..Len(tasks) : tasks[t].st \in {"finished", "panicked"}

\* C36: when the source resolution of the k-th host fails the call returns that error
\* without having read the channel; the closures submitted are exactly those of hosts
\* 1..k-1, none is added afterwards, none of them is cancelled (a queued one can start
\* whenever a worker is free, a running one can end) and each eventually ends.
C36_ResolutionFailureLeavesProbes ==
    /\ [](ResolutionFailed =>
            /\ ReturnedErr
            /\ ret.err = Unwrap(ResolveError(found))
            /\ taken = 0
            /\ Len(tasks) = SubmittedBefore(host_i)
            /\ \A t \in 1..Len(tasks) : tasks[t].host_i < host_i
            /\ \A t \in Queued :
                  Cardinality(Running) < PoolWidth(threads_num) => ENABLED StartTask(t)
            /\ \A t \in Running : ENABLED (FinishTask(t) \/ PanicTask(t)))
    /\ [][ResolutionFailed => (tasks' # tasks => Len(tasks') = Len(tasks)) /\ taken' = taken]_vars
    /\ (ResolutionFailed ~> AllEnded)

C36_Witness ==
    /\ ResolutionFailed
    /\ host_i = 2
    /\ Len(tasks) = 2
    /\ AllEnded
    /\ \E t \in 1..Len(tasks) : tasks[t].st = "finished" /\ tasks[t].sends = 1
    /\ chan = <<>>

\* C37: the flood functions call the sender with the one buffer built before the loop
\* (the same identification every time); they return Ok after exactly max_same_packet
\* calls that all succeeded, return the error of the first call that fails without
\* calling again, and with max_same_packet = 0 return Ok without a call.
C37_FloodSendsExactly ==
    /\ [](IsFlood /\ IsSome(result) =>
            LET r == Unwrap(result)
                n == Len(r.calls)
            IN /\ n <= call.arg.max_same_packet
               /\ r.buff.ip.identification = call.arg.id
               /\ \A i \in 1..n : r.calls[i].buff = r.buff
               /\ \A i \in 1..n : ~r.calls[i].ok => i = n /\ r.done /\ r.ret = "Err"
               /\ (r.done /\ r.ret = "Ok") =>
                     n = call.arg.max_same_packet /\ \A i \in 1..n : r.calls[i].ok
               /\ (r.done /\ r.ret = "Err") => n >= 1 /\ ~r.calls[n].ok
               /\ r.done => r.ret \in {"Ok", "Err"}
               /\ (r.done /\ call.arg.max_same_packet = 0) => r.ret = "Ok" /\ n = 0)
    /\ [][(IsFlood /\ IsSome(result) /\ Unwrap(result).done) => result' = result]_vars

C37_Witness ==
    /\ call.fn = "send_udp_flood_packet"
    /\ call.arg.max_same_packet = 2
    /\ IsSome(result)
    /\ Unwrap(result).done
    /\ Unwrap(result).ret = "Ok"
    /\ Len(Unwrap(result).calls) = 2
    /\ Unwrap(result).calls[1] = Unwrap(result).calls[2]

\* C38: the IPv4 header checksum stored in the buffer handed to the sender is the
\* one's-complement checksum of that header, source and destination included.
C38_StoredChecksumIsFinal ==
    (IsFlood /\ IsSome(result)) =>
        Unwrap(result).buff.ip.checksum = Ipv4Checksum(Unwrap(result).buff.ip)

\* The same for send_icmp_flood_packet alone.
C38_IcmpStoredChecksumIsFinal ==
    (call.fn = "send_icmp_flood_packet" /\ IsSome(result)) =>
        Unwrap(result).buff.ip.checksum = Ipv4Checksum(Unwrap(result).buff.ip)

====
